---- MODULE Spec2Model ----
(***************************************************************************)
(* Model of the resilient multi-provider retrieval layer (streamService):  *)
(* the transport (nativeFetch), the endpoint rotator (fetchWithRotation),  *)
(* the normalizers and the aggregation facade (getTrending, search,       *)
(* getSuggestions, getStreamUrl).                                          *)
(*                                                                         *)
(* JavaScript values are tagged records; JavaScript strings are sequences  *)
(* of one-character strings, so that toLowerCase, includes, split, padStart*)
(* and the number formatting are computed, not assumed.                    *)
(***************************************************************************)
EXTENDS Integers, Sequences, FiniteSets, TLC

\* ------------------------------------------------------------------------
\* JavaScript values
\* ------------------------------------------------------------------------
Undef == [t |-> "undefined"]
Null == [t |-> "null"]
S(x) == [t |-> "string", v |-> x]
N(x) == [t |-> "number", v |-> x]
B(x) == [t |-> "boolean", v |-> x]
Arr(x) == [t |-> "array", v |-> x]
Obj(x) == [t |-> "object", v |-> x]

\* Property read o.f : undefined on a missing member or on a primitive.
\* (Reading a member of undefined or null throws; see Nullish.)
Get(o, f) == IF o.t = "object" /\ f \in DOMAIN o.v THEN o.v[f] ELSE Undef

Nullish(x) == x.t \in {"undefined", "null"}

\* x === y
StrictEq(x, y) == x.t = y.t /\ x = y

\* JavaScript truthiness, as used by !x, x || y, x ? a : b.
Truthy(x) ==
  CASE x.t = "undefined" -> FALSE
    [] x.t = "null" -> FALSE
    [] x.t = "boolean" -> x.v
    [] x.t = "number" -> x.v # 0
    [] x.t = "string" -> x.v # <<>>
    [] OTHER -> TRUE

\* x || y
OrElse(x, y) == IF Truthy(x) THEN x ELSE y

\* ------------------------------------------------------------------------
\* Strings
\* ------------------------------------------------------------------------
UpperChars == <<"A","B","C","D","E","F","G","H","I","J","K","L","M",
                "N","O","P","Q","R","S","T","U","V","W","X","Y","Z">>
LowerChars == <<"a","b","c","d","e","f","g","h","i","j","k","l","m",
                "n","o","p","q","r","s","t","u","v","w","x","y","z">>
DigitChars == <<"0","1","2","3","4","5","6","7","8","9">>

ToLowerChar(c) ==
  IF \E i \in 1..26 : UpperChars[i] = c
    THEN LowerChars[CHOOSE i \in 1..26 : UpperChars[i] = c]
    ELSE c

\* String.prototype.toLowerCase
ToLowerCase(s) == [i \in 1..Len(s) |-> ToLowerChar(s[i])]

\* Positions (0-based) at which needle occurs in hay.
Occurrences(hay, needle) ==
  {i \in 0..(Len(hay) - Len(needle)) : SubSeq(hay, i + 1, i + Len(needle)) = needle}

\* String.prototype.includes
Includes(hay, needle) == Occurrences(hay, needle) # {}

Min(set) == CHOOSE x \in set : \A y \in set : x <= y

\* s.split(sep)[1] for a non-empty separator: the text between the first and
\* the second occurrence of sep, undefined when sep does not occur.
SplitSecond(s, sep) ==
  IF ~Includes(s, sep) THEN Undef
  ELSE LET i == Min(Occurrences(s, sep))
           rest == SubSeq(s, i + Len(sep) + 1, Len(s))
       IN IF Includes(rest, sep)
            THEN S(SubSeq(rest, 1, Min(Occurrences(rest, sep))))
            ELSE S(rest)

RECURSIVE Digits(_)
\* Number.prototype.toString for a natural number.
Digits(n) == IF n < 10 THEN <<DigitChars[n + 1]>>
             ELSE Digits(n \div 10) \o <<DigitChars[(n % 10) + 1]>>

\* s.padStart(2, '0')
PadStart2(s) == IF Len(s) < 2 THEN <<"0">> \o s ELSE s

\* (n / d).toFixed(1) for naturals n, d.
ToFixed1(n, d) ==
  LET tenths == (n * 10 + d \div 2) \div d
  IN Digits(tenths \div 10) \o <<".">> \o Digits(tenths % 10)

sZero == <<"0">>
sZeroDuration == <<"0","0",":","0","0">>
sRecently == <<"R","e","c","e","n","t","l","y">>
sUnknown == <<"U","n","k","n","o","w","n">>
sPeerTubeUser == <<"P","e","e","r","T","u","b","e"," ","U","s","e","r">>
sYouTube == <<"Y","o","u","T","u","b","e">>
sDailymotion == <<"D","a","i","l","y","m","o","t","i","o","n">>
sPeerTube == <<"P","e","e","r","T","u","b","e">>
sTikTok == <<"T","i","k","T","o","k">>
sRumble == <<"R","u","m","b","l","e">>
sVEquals == <<"v","=">>
sStream == <<"s","t","r","e","a","m">>
s1080p == <<"1","0","8","0","p">>
s720p == <<"7","2","0","p">>
sSepiaHost == <<"s","e","p","i","a",":">>
sInvalidDate == <<"I","n","v","a","l","i","d"," ","D","a","t","e">>

\* ------------------------------------------------------------------------
\* Formatter
\* ------------------------------------------------------------------------
\* formatViews: the raw counter is a number or is absent.
formatViews(views) ==
  IF ~Truthy(views) THEN S(sZero)
  ELSE IF views.t # "number" THEN views
  ELSE IF views.v >= 1000000 THEN S(ToFixed1(views.v, 1000000) \o <<"M">>)
  ELSE IF views.v >= 1000 THEN S(ToFixed1(views.v, 1000) \o <<"K">>)
  ELSE S(Digits(views.v))

\* formatDuration: the raw duration is a number of seconds or is absent.
formatDuration(seconds) ==
  IF ~Truthy(seconds) THEN S(sZeroDuration)
  ELSE IF seconds.t # "number" THEN seconds
  ELSE LET h == seconds.v \div 3600
           m == (seconds.v % 3600) \div 60
           s == seconds.v % 60
       IN IF h > 0
            THEN S(Digits(h) \o <<":">> \o PadStart2(Digits(m)) \o <<":">> \o PadStart2(Digits(s)))
            ELSE S(Digits(m) \o <<":">> \o PadStart2(Digits(s)))

\* Number/string to string, as in x.toString() and `${x}`.
sObject == <<"[","o","b","j","e","c","t","]">>
ToStringJS(x) ==
  CASE x.t = "string" -> x
    [] x.t = "number" -> S(Digits(x.v))
    [] OTHER -> S(sObject)

\* The outcome of evaluating a piece of code: a value, or a thrown error.
\* delay: the value is delivered from a setTimeout callback.
\* err: which error was thrown.
Ret(v) == [kind |-> "return", val |-> v, delay |-> FALSE, err |-> "none"]
RetDelayed(v) == [kind |-> "return", val |-> v, delay |-> TRUE, err |-> "none"]
Throw(e) == [kind |-> "throw", val |-> Undef, delay |-> FALSE, err |-> e]
\* Reading a member of null/undefined, calling a missing method.
Thrown == Throw("TypeError")

\* arr.map(f), given the entries on which f throws and the mapped entries:
\* throws when arr is not an array (no map method) or when f throws.
MapArray(arr, throwing, mapped) ==
  IF arr.t # "array" THEN Thrown
  ELSE IF throwing # {} THEN Thrown
  ELSE Ret(Arr(mapped))

\* The indices of a payload's entries, none when it is not an array.
Indices(arr) == IF arr.t = "array" THEN 1..Len(arr.v) ELSE {}

\* ------------------------------------------------------------------------
\* Static mock sets (module ../constants)
\* ------------------------------------------------------------------------
sCatDance == <<"C","a","t"," ","D","a","n","c","e">>
sDogTrick == <<"D","o","g"," ","t","r","i","c","k">>
sCatNews == <<"C","A","T"," ","n","e","w","s">>
sRally == <<"R","a","l","l","y">>
sOpenCat == <<"O","p","e","n"," ","c","a","t">>
sLiveMatch == <<"L","i","v","e"," ","M","a","t","c","h">>
sBigBuck == <<"B","i","g"," ","B","u","c","k">>
sLibreTalk == <<"L","i","b","r","e"," ","t","a","l","k">>

VideoData(id, title, platform, streamUrl) ==
  Obj([id |-> S(id), title |-> S(title), uploader |-> S(<<"u">>),
       views |-> S(<<"1",".","2","M">>), date |-> S(sRecently),
       duration |-> S(<<"3",":","0","0">>), thumbnail |-> S(<<"t">>),
       platform |-> S(platform), avatar |-> S(<<>>), streamUrl |-> streamUrl])

MOCK_VIDEOS ==
  Arr(<<VideoData(<<"m","1">>, sLiveMatch, sYouTube, Undef),
        VideoData(<<"m","2">>, sBigBuck, sYouTube, S(<<"m","2",".","m","p","4">>))>>)
MOCK_TIKTOK_VIDEOS ==
  Arr(<<VideoData(<<"t","1">>, sCatDance, sTikTok, S(<<"t","1",".","m","p","4">>)),
        VideoData(<<"t","2">>, sDogTrick, sTikTok, S(<<"t","2",".","m","p","4">>))>>)
MOCK_RUMBLE_VIDEOS ==
  Arr(<<VideoData(<<"r","1">>, sCatNews, sRumble, S(<<"r","1",".","m","p","4">>)),
        VideoData(<<"r","2">>, sRally, sRumble, Undef)>>)
MOCK_PEERTUBE_VIDEOS ==
  Arr(<<VideoData(<<"p","1">>, sOpenCat, sPeerTube, S(<<"p","1",".","m","p","4">>)),
        VideoData(<<"p","2">>, sLibreTalk, sPeerTube, Undef)>>)

\* ------------------------------------------------------------------------
\* Normalizers
\* ------------------------------------------------------------------------
\* The YouTube mapping callback of getTrending and search: v.url.split throws
\* when v is null/undefined or v.url is not a string.
YtEntryThrows(v) == Nullish(v) \/ Get(v, "url").t # "string"

mapYtEntry(v) ==
  Obj([id |-> SplitSecond(Get(v, "url").v, sVEquals),
       title |-> Get(v, "title"),
       uploader |-> Get(v, "uploaderName"),
       views |-> formatViews(Get(v, "views")),
       date |-> OrElse(Get(v, "uploadedDate"), S(sRecently)),
       duration |-> formatDuration(Get(v, "duration")),
       thumbnail |-> Get(v, "thumbnail"),
       platform |-> S(sYouTube),
       avatar |-> Get(v, "uploaderAvatar"),
       isShort |-> Get(v, "isShort")])

\* data.map(...) of getTrending
mapYtTrending(data) ==
  MapArray(data, {i \in Indices(data) : YtEntryThrows(data.v[i])},
           [i \in Indices(data) |-> mapYtEntry(data.v[i])])

\* mapYtSearch without the filter on the entries' type.
mapYtSearch_NoFilter(data) ==
  IF Nullish(data) THEN Thrown
  ELSE LET items == Get(data, "items")
       IN IF items.t # "array" THEN Thrown
          ELSE MapArray(items, {}, [i \in Indices(items) |-> mapYtEntry(items.v[i])])

IsStream(i) == StrictEq(Get(i, "type"), S(sStream))

\* data.items.filter(i => i.type === 'stream').map(...) of search
mapYtSearch(data) ==
  IF Nullish(data) THEN Thrown
  ELSE LET items == Get(data, "items")
       IN IF items.t # "array" THEN Thrown
          ELSE IF \E i \in 1..Len(items.v) : Nullish(items.v[i]) THEN Thrown
          ELSE mapYtTrending(Arr(SelectSeq(items.v, IsStream)))

mapDmEntry(v) ==
  Obj([id |-> Get(v, "id"),
       title |-> Get(v, "title"),
       uploader |-> IF Truthy(Get(v, "owner")) THEN Get(Get(v, "owner"), "username")
                    ELSE S(sUnknown),
       views |-> formatViews(Get(v, "views_total")),
       date |-> S(sRecently),
       duration |-> formatDuration(Get(v, "duration")),
       thumbnail |-> Get(v, "thumbnail_720_url"),
       platform |-> S(sDailymotion),
       avatar |-> IF Truthy(Get(v, "owner")) THEN Get(Get(v, "owner"), "avatar_80_url")
                  ELSE S(<<>>)])

\* mapDmData without the guard on a missing list.
mapDmData_NoGuard(data) ==
  IF Nullish(data) THEN Thrown
  ELSE LET list == Get(data, "list")
       IN MapArray(list, {i \in Indices(list) : Nullish(list.v[i])},
                   [i \in Indices(list) |-> mapDmEntry(list.v[i])])

mapDmData(data) ==
  IF ~Truthy(data) \/ ~Truthy(Get(data, "list")) THEN Ret(Arr(<<>>))
  ELSE LET list == Get(data, "list")
       IN MapArray(list, {i \in Indices(list) : Nullish(list.v[i])},
                   [i \in Indices(list) |-> mapDmEntry(list.v[i])])

\* new Date(x).toLocaleDateString(): a date string for a parsable timestamp.
sIsoDate == <<"2","0","2","4","-","0","1","-","0","2">>
sLocalDate == <<"1","/","2","/","2","0","2","4">>
ToLocaleDateString(x) == IF StrictEq(x, S(sIsoDate)) THEN S(sLocalDate) ELSE S(sInvalidDate)

\* v.uuid || v.id.toString() throws when uuid is falsy and id is null/undefined.
PtEntryThrows(v) ==
  Nullish(v) \/ (~Truthy(Get(v, "uuid")) /\ Nullish(Get(v, "id")))

\* x?.f
OptGet(x, f) == IF Nullish(x) THEN Undef ELSE Get(x, f)

mapPeerTubeEntry(v) ==
  Obj([id |-> IF Truthy(Get(v, "uuid")) THEN Get(v, "uuid") ELSE ToStringJS(Get(v, "id")),
       title |-> OrElse(Get(v, "name"), OptGet(Get(v, "option"), "name")),
       uploader |-> OrElse(OptGet(Get(v, "account"), "name"), S(sPeerTubeUser)),
       views |-> formatViews(Get(v, "views")),
       date |-> IF Truthy(Get(v, "publishedAt")) THEN ToLocaleDateString(Get(v, "publishedAt"))
                ELSE S(sRecently),
       duration |-> formatDuration(Get(v, "duration")),
       thumbnail |-> OrElse(Get(v, "thumbnailUrl"),
                            IF Truthy(Get(v, "previewPath"))
                              THEN S(sSepiaHost \o ToStringJS(Get(v, "previewPath")).v)
                              ELSE S(<<>>)),
       platform |-> S(sPeerTube),
       avatar |-> S(<<>>),
       streamUrl |-> Get(v, "embedPath")])

mapPeerTubeData(data) ==
  IF ~Truthy(data) \/ ~Truthy(Get(data, "data")) THEN Ret(Arr(<<>>))
  ELSE LET list == Get(data, "data")
       IN MapArray(list, {i \in Indices(list) : PtEntryThrows(list.v[i])},
                   [i \in Indices(list) |-> mapPeerTubeEntry(list.v[i])])

\* ------------------------------------------------------------------------
\* Aggregation facade: the code of each operation around its await
\* ------------------------------------------------------------------------
PIPED_INSTANCES_length == 7
maxAttempts == 3

\* TrendingRoute that sends only the YouTube token through the rotator.
TrendingRoute_YouTubeOnly(platform) ==
  CASE platform = "YouTube" -> "rotated"
    [] platform \in {"Dailymotion", "PeerTube"} -> "direct"
    [] OTHER -> "none"

\* How an operation reaches the network: through the rotator, through the
\* transport directly, or not at all.
TrendingRoute(platform) ==
  CASE platform \in {"YouTube", "All"} -> "rotated"
    [] platform \in {"Dailymotion", "PeerTube"} -> "direct"
    [] OTHER -> "none"

\* mock.filter(v => v.title.toLowerCase().includes(query.toLowerCase()))
TitleMatches(v, query) == Includes(ToLowerCase(Get(v, "title").v), ToLowerCase(query))
FilterByTitle(mock, query) ==
  LET Keep(v) == TitleMatches(v, query) IN Arr(SelectSeq(mock.v, Keep))
\* mock.filter(v => ...includes(...) || query.length < 3)
FilterByTitleOrShort(mock, query) ==
  LET Keep(v) == TitleMatches(v, query) \/ Len(query) < 3 IN Arr(SelectSeq(mock.v, Keep))

\* TrendingSync without the TikTok branch: the token gets the generic mocks.
TrendingSync_NoTikTok(platform) ==
  CASE platform = "Rumble" -> Ret(MOCK_RUMBLE_VIDEOS)
    [] platform = "Bandcamp" -> Ret(Arr(<<>>))
    [] OTHER -> Ret(MOCK_VIDEOS)

\* getTrending, try block, the branches that do not await.
TrendingSync(platform) ==
  CASE platform = "TikTok" -> Ret(MOCK_TIKTOK_VIDEOS)
    [] platform = "Rumble" -> Ret(MOCK_RUMBLE_VIDEOS)
    [] platform = "Bandcamp" -> Ret(Arr(<<>>))
    [] OTHER -> Ret(MOCK_VIDEOS)

\* getTrending, try block, after the awaited fetch delivered data.
TrendingOnData(platform, data) ==
  CASE platform \in {"YouTube", "All"} -> mapYtTrending(data)
    [] platform = "Dailymotion" -> mapDmData(data)
    [] OTHER -> mapPeerTubeData(data)

\* TrendingCatch that forgets the provider's own mock set.
TrendingCatch_GenericOnly(isNative, platform) ==
  IF ~isNative THEN RetDelayed(MOCK_VIDEOS) ELSE Ret(Arr(<<>>))

\* getTrending, catch block.
TrendingCatch(isNative, platform) ==
  IF ~isNative
    THEN CASE platform = "TikTok" -> Ret(MOCK_TIKTOK_VIDEOS)
           [] platform = "Rumble" -> Ret(MOCK_RUMBLE_VIDEOS)
           [] platform = "PeerTube" -> Ret(MOCK_PEERTUBE_VIDEOS)
           [] OTHER -> RetDelayed(MOCK_VIDEOS)
    ELSE Ret(Arr(<<>>))

\* search, try block, the branches that do not await.
SearchSync(query, platform) ==
  CASE platform = "TikTok" -> Ret(FilterByTitleOrShort(MOCK_TIKTOK_VIDEOS, query))
    [] platform = "Rumble" -> Ret(FilterByTitleOrShort(MOCK_RUMBLE_VIDEOS, query))
    [] OTHER -> Ret(FilterByTitle(MOCK_VIDEOS, query))

\* search, try block, after the awaited fetch delivered data.
SearchOnData(platform, data) ==
  CASE platform \in {"YouTube", "All"} -> mapYtSearch(data)
    [] platform = "Dailymotion" -> mapDmData(data)
    [] OTHER -> mapPeerTubeData(data)

\* SearchCatch that keeps an empty filter result.
SearchCatch_FilteredOnly(isNative, platform, query) ==
  IF ~isNative
    THEN LET results == CASE platform = "TikTok" -> MOCK_TIKTOK_VIDEOS
                          [] platform = "Rumble" -> MOCK_RUMBLE_VIDEOS
                          [] platform = "PeerTube" -> MOCK_PEERTUBE_VIDEOS
                          [] OTHER -> MOCK_VIDEOS
         IN RetDelayed(FilterByTitle(results, query))
    ELSE Ret(Arr(<<>>))

\* SearchCatch that hands out the mocks in a native context too.
SearchCatch_MocksAlways(isNative, platform, query) ==
  LET results == CASE platform = "TikTok" -> MOCK_TIKTOK_VIDEOS
                   [] platform = "Rumble" -> MOCK_RUMBLE_VIDEOS
                   [] platform = "PeerTube" -> MOCK_PEERTUBE_VIDEOS
                   [] OTHER -> MOCK_VIDEOS
      filtered == FilterByTitle(results, query)
  IN RetDelayed(IF Len(filtered.v) > 0 THEN filtered ELSE results)

\* search, catch block.
SearchCatch(isNative, platform, query) ==
  IF ~isNative
    THEN LET results == CASE platform = "TikTok" -> MOCK_TIKTOK_VIDEOS
                          [] platform = "Rumble" -> MOCK_RUMBLE_VIDEOS
                          [] platform = "PeerTube" -> MOCK_PEERTUBE_VIDEOS
                          [] OTHER -> MOCK_VIDEOS
             filtered == FilterByTitle(results, query)
         IN RetDelayed(IF Len(filtered.v) > 0 THEN filtered ELSE results)
    ELSE Ret(Arr(<<>>))

\* arr.find(p), given the indices of the entries that satisfy p: the first
\* such entry; the callback reads a member of each entry it visits and throws
\* on a null/undefined entry met before the first hit.
FindJS(seq, hits) ==
  LET bad == {i \in 1..Len(seq) : Nullish(seq[i])}
  IN IF hits # {} /\ \A b \in bad : b > Min(hits) THEN Ret(seq[Min(hits)])
     ELSE IF bad # {} THEN Thrown
     ELSE Ret(Undef)

\* Is1080pAV that accepts a video-only track.
Is1080pAV_AnyTrack(s) == StrictEq(Get(s, "quality"), S(s1080p))

Is1080pAV(s) == StrictEq(Get(s, "quality"), S(s1080p)) /\ StrictEq(Get(s, "videoOnly"), B(FALSE))
Is720pAV(s) == StrictEq(Get(s, "quality"), S(s720p)) /\ StrictEq(Get(s, "videoOnly"), B(FALSE))
IsAV(s) == StrictEq(Get(s, "videoOnly"), B(FALSE))

\* getStreamUrl (YouTube), try block after the awaited fetch delivered data.
StreamTry(data) ==
  IF Nullish(data) THEN Thrown
  ELSE IF Truthy(Get(data, "hls")) THEN Ret(Get(data, "hls"))
  ELSE LET streams == OrElse(Get(data, "videoStreams"), Arr(<<>>))
       IN IF streams.t # "array" THEN Thrown
          ELSE LET vs == streams.v
                   f1 == FindJS(vs, {i \in 1..Len(vs) : Is1080pAV(vs[i])})
                   f2 == FindJS(vs, {i \in 1..Len(vs) : Is720pAV(vs[i])})
                   f3 == FindJS(vs, {i \in 1..Len(vs) : IsAV(vs[i])})
                   best == IF f1.kind = "throw" \/ Truthy(f1.val) THEN f1
                           ELSE IF f2.kind = "throw" \/ Truthy(f2.val) THEN f2
                           ELSE f3
               IN IF best.kind = "throw" THEN Thrown
                  ELSE IF Truthy(best.val) THEN Ret(Get(best.val, "url"))
                  ELSE Ret(Null)

\* getStreamUrl (YouTube), catch block.
StreamCatch == Ret(Null)

\* getSuggestions, catch block.
SuggestionsCatch == Ret(Arr(<<>>))

\* Completion without the catch blocks: an error leaves the operation.
Completion_NoCatch(op, platform, query, isNative, fetched) ==
  IF fetched.kind = "throw" THEN fetched
  ELSE CASE op = "getTrending" -> TrendingOnData(platform, fetched.val)
         [] op = "search" -> SearchOnData(platform, fetched.val)
         [] op = "getSuggestions" -> Ret(fetched.val)
         [] OTHER -> StreamTry(fetched.val)

\* The result of an operation whose awaited fetch completed with `fetched`
\* (a payload, or a thrown error): the rest of the try block, then the catch
\* block when the fetch or the rest of the try block threw.
Completion(op, platform, query, isNative, fetched) ==
  LET tried == IF fetched.kind = "throw" THEN fetched
               ELSE CASE op = "getTrending" -> TrendingOnData(platform, fetched.val)
                      [] op = "search" -> SearchOnData(platform, fetched.val)
                      [] op = "getSuggestions" -> Ret(fetched.val)
                      [] OTHER -> StreamTry(fetched.val)
  IN IF tried.kind # "throw" THEN tried
     ELSE CASE op = "getTrending" -> TrendingCatch(isNative, platform)
            [] op = "search" -> SearchCatch(isNative, platform, query)
            [] op = "getSuggestions" -> SuggestionsCatch
            [] OTHER -> StreamCatch

\* getStreamUrl, the branches that do not await (Dailymotion, mock lookup).
sEmbedPrefix == <<"d","m","/","e","m","b","e","d","/">>
sAutoplay == <<"?","a","u","t","o","p","l","a","y","=","1">>
sBigBuckBunny == <<"B","i","g","B","u","c","k","B","u","n","n","y",".","m","p","4">>
\* StreamSync without the sample URL: null when no mock offers a stream.
StreamSync_NoSample(id, platform) ==
  IF platform = "Dailymotion" THEN Ret(S(sEmbedPrefix \o id \o sAutoplay))
  ELSE LET allMocks == MOCK_TIKTOK_VIDEOS.v \o MOCK_RUMBLE_VIDEOS.v
                         \o MOCK_PEERTUBE_VIDEOS.v \o MOCK_VIDEOS.v
           match == FindJS(allMocks, {i \in 1..Len(allMocks) :
                                        StrictEq(Get(allMocks[i], "id"), S(id))}).val
       IN IF Truthy(match) /\ Truthy(Get(match, "streamUrl"))
            THEN Ret(Get(match, "streamUrl"))
            ELSE Ret(Null)

StreamSync(id, platform) ==
  IF platform = "Dailymotion" THEN Ret(S(sEmbedPrefix \o id \o sAutoplay))
  ELSE LET allMocks == MOCK_TIKTOK_VIDEOS.v \o MOCK_RUMBLE_VIDEOS.v
                         \o MOCK_PEERTUBE_VIDEOS.v \o MOCK_VIDEOS.v
           match == FindJS(allMocks, {i \in 1..Len(allMocks) :
                                        StrictEq(Get(allMocks[i], "id"), S(id))}).val
       IN IF Truthy(match) /\ Truthy(Get(match, "streamUrl"))
            THEN Ret(Get(match, "streamUrl"))
            ELSE Ret(S(sBigBuckBunny))

\* ------------------------------------------------------------------------
\* Transport (nativeFetch) and rotator (fetchWithRotation), step by step
\* ------------------------------------------------------------------------
\* FirstStage that always starts with the browser fetch.
FirstStage_BrowserFirst(isNative, hasPlugin) == "direct"

\* The request nativeFetch issues first: CapacitorHttp.get in a native
\* context that has the plugin, the direct browser fetch otherwise.
FirstStage(isNative, hasPlugin) == IF isNative /\ hasPlugin THEN "native" ELSE "direct"

\* NativeFetchStep that throws also on a good answer of its last request.
NativeFetchStep_ThrowsOnOk(stage, resp) ==
  CASE stage = "direct" -> IF resp.kind = "ok" THEN "return" ELSE "proxy"
    [] OTHER -> "throw"

\* NativeFetchStep without the CORS proxy.
NativeFetchStep_NoProxy(stage, resp) ==
  IF resp.kind = "ok" THEN "return" ELSE "throw"

\* What nativeFetch does with the answer to the request of `stage`:
\* return the body, throw, or go on to the CORS proxy.
NativeFetchStep(stage, resp) ==
  CASE stage = "native" -> IF resp.kind = "ok" THEN "return" ELSE "throw"
    [] stage = "direct" -> IF resp.kind = "ok" THEN "return" ELSE "proxy"
    [] OTHER -> IF resp.kind = "ok" THEN "return" ELSE "throw"

\* The error nativeFetch throws on the answer to the request of `stage`.
NativeFetchError(stage, resp) ==
  IF stage = "native"
    THEN IF resp.kind = "status" THEN "Native HTTP Error" ELSE "CapacitorHttp rejected"
    ELSE "Web Fetch Failed"

\* currentIndex = (activeInstanceIndex + attempts) % PIPED_INSTANCES.length
\* RotationIndex without the wrap at the end of the pool.
RotationIndex_NoWrap(active, attempts) == active + attempts

RotationIndex(active, attempts) == (active + attempts) % PIPED_INSTANCES_length

\* RotationUpdate that moves the cursor past the mirror that answered.
RotationUpdate_Advance(active, currentIndex) == (currentIndex + 1) % PIPED_INSTANCES_length

\* RotationUpdate that never moves the cursor.
RotationUpdate_Stale(active, currentIndex) == active

\* if (activeInstanceIndex !== currentIndex) activeInstanceIndex = currentIndex
RotationUpdate(active, currentIndex) == IF active # currentIndex THEN currentIndex ELSE active

\* MoreAttempts with an off-by-one bound.
MoreAttempts_OneMore(attempts) == attempts <= maxAttempts

\* while (attempts < maxAttempts)
MoreAttempts(attempts) == attempts < maxAttempts

\* ------------------------------------------------------------------------
\* Inputs: provider tokens, queries, ids, and the payloads a server may send
\* ------------------------------------------------------------------------
Platforms == {"YouTube", "All", "Dailymotion", "PeerTube", "TikTok", "Rumble", "Bandcamp", "Vimeo"}
Ops == {"getTrending", "search", "getSuggestions", "getStreamUrl"}

sUS == <<"U","S">>
qEmpty == <<>>
qCa == <<"c","a">>
qCAT == <<"C","A","T">>
qDog == <<"d","o","g">>
qBuck == <<"b","u","c","k">>
qNoMatch == <<"x","y","z","_","n","o","_","m","a","t","c","h","_","q","u","e","r","y">>
Queries == {qEmpty, qCa, qCAT, qDog, qBuck, qNoMatch}
Ids == {<<"t","1">>, <<"r","2">>, <<"z","9">>}

\* The arguments of an operation besides the provider token.
ArgsOf(op) ==
  CASE op = "getTrending" -> {sUS}
    [] op = "getStreamUrl" -> Ids
    [] OTHER -> Queries
\* getSuggestions has no provider parameter: it always asks the rotated provider.
PlatformsOf(op) == IF op = "getSuggestions" THEN {"YouTube"} ELSE Platforms

sWatchA1 == <<"/","w","?","v","=","a","1">>
sWatchB2 == <<"/","w","?","v","=","b","2","&","v","=","x">>
ytFull ==
  Obj([url |-> S(sWatchA1), type |-> S(sStream), title |-> S(sCatDance),
       uploaderName |-> S(<<"u","p">>), views |-> N(1500000), uploadedDate |-> S(<<"1","d">>),
       duration |-> N(3661), thumbnail |-> S(<<"t","h">>), uploaderAvatar |-> S(<<"a","v">>),
       isShort |-> B(FALSE)])
ytMinimal == Obj([url |-> S(sWatchB2), type |-> S(sStream)])
ytChannel == Obj([url |-> S(<<"/","c","h">>), type |-> S(<<"c","h","a","n","n","e","l">>)])
ytNoUrl == Obj([title |-> S(sDogTrick), type |-> S(sStream)])
dmFull ==
  Obj([id |-> S(<<"x","1">>), title |-> S(sRally),
       owner |-> Obj([username |-> S(<<"o","w">>), avatar_80_url |-> S(<<"a","8">>)]),
       views_total |-> N(500), duration |-> N(90), thumbnail_720_url |-> S(<<"t","7">>)])
ptFull ==
  Obj([uuid |-> S(<<"u","u">>), name |-> S(sOpenCat), account |-> Obj([name |-> S(<<"a","c">>)]),
       views |-> N(1234), publishedAt |-> S(sIsoDate), duration |-> N(59),
       previewPath |-> S(<<"/","p">>), embedPath |-> S(<<"/","e">>)])
ptIdOnly == Obj([id |-> N(7)])
ptNoId == Obj([name |-> S(sRally)])

sUrlHls == <<"h",".","m","3","u","8">>
sUrl1080 == <<"1","0","8","0",".","m","p","4">>
sUrl720 == <<"7","2","0",".","m","p","4">>
sUrl480 == <<"4","8","0",".","m","p","4">>
Variant(quality, videoOnly, url) ==
  Obj([quality |-> S(quality), videoOnly |-> B(videoOnly), url |-> S(url)])
vo1080 == Variant(s1080p, TRUE, <<"v","o">>)
av1080 == Variant(s1080p, FALSE, sUrl1080)
av720 == Variant(s720p, FALSE, sUrl720)
av480 == Variant(<<"4","8","0","p">>, FALSE, sUrl480)
avNoUrl == Obj([quality |-> S(s720p), videoOnly |-> B(FALSE)])

P_YtTrending == Arr(<<ytFull, ytMinimal>>)
P_EmptyArray == Arr(<<>>)
P_YtNoUrl == Arr(<<ytFull, ytNoUrl>>)
P_YtSearch == Obj([items |-> Arr(<<ytChannel, ytFull, ytMinimal>>)])
P_ErrorObject == Obj([error |-> S(<<"e","r","r">>)])
P_Dm == Obj([list |-> Arr(<<dmFull, Obj(<<>>)>>)])
P_DmBadList == Obj([list |-> S(<<"o","o","p","s">>)])
P_DmNullEntry == Obj([list |-> Arr(<<dmFull, Null>>)])
P_PeerTube == Obj([total |-> N(2), data |-> Arr(<<ptFull, ptIdOnly>>)])
P_PeerTubeNoId == Obj([data |-> Arr(<<ptNoId>>)])
P_Suggestions == Arr(<<S(<<"c","a","t">>), S(<<"c","a","t","s">>)>>)
P_StreamsHls == Obj([hls |-> S(sUrlHls), videoStreams |-> Arr(<<av1080>>)])
P_StreamsBoth == Obj([videoStreams |-> Arr(<<vo1080, av480, av720, av1080>>)])
P_Streams720 == Obj([videoStreams |-> Arr(<<vo1080, av480, av720>>)])
P_Streams480 == Obj([hls |-> Null, videoStreams |-> Arr(<<vo1080, av480>>)])
P_StreamsVideoOnly == Obj([videoStreams |-> Arr(<<vo1080>>)])
P_StreamsNoUrl == Obj([videoStreams |-> Arr(<<avNoUrl, av480>>)])
P_StreamsNullEntry == Obj([videoStreams |-> Arr(<<av480, Null>>)])
P_Text == S(<<"<","h",">">>)

\* Servers are untrusted: any payload may answer any request.
Payloads ==
  {P_YtTrending, P_EmptyArray, P_YtNoUrl, P_YtSearch, P_ErrorObject, Null,
   P_Dm, P_DmBadList, P_DmNullEntry, P_PeerTube, P_PeerTubeNoId, P_Suggestions,
   P_StreamsHls, P_StreamsBoth, P_Streams720, P_Streams480, P_StreamsVideoOnly,
   P_StreamsNoUrl, P_StreamsNullEntry, P_Text}

\* The answer to one HTTP request: a 2xx response with a parsable body, a
\* 2xx response whose body does not parse, a non-2xx status, a network error.
OkResp(body) == [kind |-> "ok", body |-> body]
FailResp(kind) == [kind |-> kind, body |-> Undef]
Responses ==
  {OkResp(b) : b \in Payloads} \cup {FailResp(k) : k \in {"badbody", "status", "error"}}

\* The answers the request of `stage` can get: CapacitorHttp hands over the
\* body as it is, so only the browser fetch can fail in res.json().
ResponsesTo(stage) == IF stage = "native" THEN {r \in Responses : r.kind # "badbody"} ELSE Responses

\* ------------------------------------------------------------------------
\* State
\* ------------------------------------------------------------------------
NumCallers == 2
Callers == 1..NumCallers

VARIABLES
  activeInstanceIndex,  \* let activeInstanceIndex: the rotation cursor
  isNative,             \* Capacitor.isNativePlatform()
  hasPlugin,            \* window.Capacitor.Plugins.CapacitorHttp is present
  call,                 \* per caller: the operation it has in flight
  videos,               \* App: const [videos, setVideos] = useState([])
  loading,              \* App: const [loading, setLoading] = useState(true)
  error,                \* App: const [error, setError] = useState(false)
  history,              \* App: const [history, setHistory] = useState([])
  incognito,            \* App: settings.incognito
  fetchRun,             \* per caller: the fetchData run it has in progress
  fetchOrder,           \* the callers in the order their fetchData runs began
  lastWatched           \* the last video handed to addToHistory

uiVars == <<videos, loading, error, history, incognito, fetchRun, fetchOrder, lastWatched>>
vars == <<activeInstanceIndex, isNative, hasPlugin, call, uiVars>>

NoIndex == -1
NoOutcome == [kind |-> "none", val |-> Undef, delay |-> FALSE, err |-> "none"]
NoResp == [kind |-> "none", body |-> Undef]

\* pc: idle, fetch (a request is in flight), delay (setTimeout pending), done.
\* What the call did: startIndex is the cursor when it began, tried the
\* mirrors it asked, requests the HTTP requests it issued, answers whether
\* each answered request succeeded, served the answer to the last of them,
\* fetched what its awaited fetch returned or threw.
IdleCall ==
  [pc |-> "idle", op |-> "none", platform |-> "none", arg |-> <<>>, route |-> "none",
   attempts |-> 0, currentIndex |-> NoIndex, stage |-> "none",
   startIndex |-> NoIndex, tried |-> <<>>, requests |-> <<>>, answers |-> <<>>,
   served |-> NoResp, fetched |-> NoOutcome, result |-> NoOutcome]

\* A fetchData run: idle, running (awaiting the service), settled; captured
\* is the videos value its closure holds.
IdleRun == [pc |-> "idle", captured |-> Arr(<<>>)]
NoVideo == [id |-> 0, recorded |-> FALSE]

\* The useState initial values of App.
InitUI ==
  /\ videos = Arr(<<>>)
  /\ loading = TRUE
  /\ error = FALSE
  /\ history = <<>>
  /\ incognito = FALSE
  /\ fetchRun = [c \in Callers |-> IdleRun]
  /\ fetchOrder = <<>>
  /\ lastWatched = NoVideo

Init ==
  /\ activeInstanceIndex = 0
  /\ isNative \in BOOLEAN
  /\ hasPlugin \in BOOLEAN
  /\ (hasPlugin => isNative)
  /\ call = [c \in Callers |-> IdleCall]
  /\ InitUI

\* RouteOf without the empty-query gate of getSuggestions.
RouteOf_NoGate(op, platform, arg) ==
  CASE op \in {"getTrending", "search"} -> TrendingRoute(platform)
    [] op = "getSuggestions" -> "rotated"
    [] OTHER -> IF platform = "YouTube" THEN "rotated" ELSE "none"

\* How the operation reaches the network.
RouteOf(op, platform, arg) ==
  CASE op \in {"getTrending", "search"} -> TrendingRoute(platform)
    [] op = "getSuggestions" -> IF arg = <<>> THEN "none" ELSE "rotated"
    [] OTHER -> IF platform = "YouTube" THEN "rotated" ELSE "none"

\* The result of an operation that awaits nothing.
SyncResult(op, platform, arg) ==
  CASE op = "getTrending" -> TrendingSync(platform)
    [] op = "search" -> SearchSync(arg, platform)
    [] op = "getSuggestions" -> Ret(Arr(<<>>))
    [] OTHER -> StreamSync(arg, platform)

\* The caller's record once the operation has the outcome of its fetch.
Finish(rec, fetched, resp) ==
  LET res == Completion(rec.op, rec.platform, rec.arg, isNative, fetched)
  IN [rec EXCEPT !.pc = IF res.delay THEN "delay" ELSE "done",
                 !.stage = "none", !.served = resp,
                 !.answers = @ \o <<resp.kind = "ok">>,
                 !.fetched = fetched, !.result = res]

\* The code of an operation from its invocation up to its first await.
Start(c, op, platform, arg) ==
  /\ LET route == RouteOf(op, platform, arg)
         stage == FirstStage(isNative, hasPlugin)
         idx == IF route = "rotated" THEN RotationIndex(activeInstanceIndex, 0) ELSE NoIndex
     IN call' = [call EXCEPT ![c] =
          IF route = "none"
            THEN [IdleCall EXCEPT !.pc = "done", !.op = op, !.platform = platform,
                                  !.arg = arg, !.startIndex = activeInstanceIndex,
                                  !.result = SyncResult(op, platform, arg)]
            ELSE [IdleCall EXCEPT !.pc = "fetch", !.op = op, !.platform = platform,
                                  !.arg = arg, !.route = route, !.currentIndex = idx,
                                  !.stage = stage,
                                  !.startIndex = activeInstanceIndex,
                                  !.tried = IF route = "rotated" THEN <<idx>> ELSE <<>>,
                                  !.requests = <<stage>>]]
  /\ UNCHANGED <<activeInstanceIndex, isNative, hasPlugin>>

\* A caller invokes an operation while no other operation is running.
Invoke(c, op, platform, arg) ==
  /\ \A d \in Callers : call[d].pc = "idle"
  /\ Start(c, op, platform, arg)
  /\ UNCHANGED uiVars

\* A caller invokes an operation while other operations may be in flight:
\* the awaits of concurrently invoked operations interleave.
InvokeConcurrently(c, op, platform, arg) ==
  /\ call[c].pc = "idle"
  /\ Start(c, op, platform, arg)
  /\ UNCHANGED uiVars

\* The request in flight is answered with a usable body: nativeFetch returns
\* it; the rotator moves the cursor to the mirror that answered; the operation
\* runs to its end.
FetchSucceed(c, resp) ==
  /\ call[c].pc = "fetch"
  /\ resp \in ResponsesTo(call[c].stage)
  /\ NativeFetchStep(call[c].stage, resp) = "return"
  /\ activeInstanceIndex' =
       IF call[c].route = "rotated"
         THEN RotationUpdate(activeInstanceIndex, call[c].currentIndex)
         ELSE activeInstanceIndex
  /\ call' = [call EXCEPT ![c] = Finish(call[c], Ret(resp.body), resp)]
  /\ UNCHANGED <<isNative, hasPlugin, uiVars>>

\* The direct browser fetch failed: nativeFetch retries through the CORS proxy.
FetchViaProxy(c, resp) ==
  /\ call[c].pc = "fetch"
  /\ resp \in ResponsesTo(call[c].stage)
  /\ NativeFetchStep(call[c].stage, resp) = "proxy"
  /\ call' = [call EXCEPT ![c].stage = "proxy", ![c].requests = @ \o <<"proxy">>,
                          ![c].answers = @ \o <<resp.kind = "ok">>]
  /\ UNCHANGED <<activeInstanceIndex, isNative, hasPlugin, uiVars>>

\* nativeFetch throws inside fetchWithRotation and attempts are left: the
\* rotator goes on to the next mirror, counted from the cursor as it is now.
FetchRotate(c, resp) ==
  /\ call[c].pc = "fetch"
  /\ call[c].route = "rotated"
  /\ resp \in ResponsesTo(call[c].stage)
  /\ NativeFetchStep(call[c].stage, resp) = "throw"
  /\ MoreAttempts(call[c].attempts + 1)
  /\ LET idx == RotationIndex(activeInstanceIndex, call[c].attempts + 1)
         stage == FirstStage(isNative, hasPlugin)
     IN call' = [call EXCEPT ![c].attempts = @ + 1, ![c].currentIndex = idx,
                             ![c].stage = stage, ![c].tried = @ \o <<idx>>,
                             ![c].requests = @ \o <<stage>>,
                             ![c].answers = @ \o <<resp.kind = "ok">>]
  /\ UNCHANGED <<activeInstanceIndex, isNative, hasPlugin, uiVars>>

\* nativeFetch throws and nothing is left to try (a direct call, or the last
\* attempt of the rotator, which throws 'All API instances failed.'): the
\* operation's catch block runs.
FetchFail(c, resp) ==
  /\ call[c].pc = "fetch"
  /\ resp \in ResponsesTo(call[c].stage)
  /\ NativeFetchStep(call[c].stage, resp) = "throw"
  /\ call[c].route = "rotated" => ~MoreAttempts(call[c].attempts + 1)
  /\ call' = [call EXCEPT ![c] =
       Finish([call[c] EXCEPT !.attempts = IF call[c].route = "rotated" THEN @ + 1 ELSE @],
              IF call[c].route = "rotated" THEN Throw("All API instances failed.")
              ELSE Throw(NativeFetchError(call[c].stage, resp)),
              resp)]
  /\ UNCHANGED <<activeInstanceIndex, isNative, hasPlugin, uiVars>>

\* DelayElapsed whose timer callback never resolves the promise.
DelayElapsed_Unresolved(c) ==
  /\ call[c].pc = "delay"
  /\ UNCHANGED vars

\* setTimeout(..., 800) fires and the promise resolves with the mock set.
DelayElapsed(c) ==
  /\ call[c].pc = "delay"
  /\ call' = [call EXCEPT ![c].pc = "done"]
  /\ UNCHANGED <<activeInstanceIndex, isNative, hasPlugin, uiVars>>

\* The caller takes the result.
Collect(c) ==
  /\ call[c].pc = "done"
  /\ call' = [call EXCEPT ![c] = IdleCall]
  /\ UNCHANGED <<activeInstanceIndex, isNative, hasPlugin, uiVars>>

Next ==
  \/ \E c \in Callers, op \in Ops : \E platform \in PlatformsOf(op), arg \in ArgsOf(op) :
       Invoke(c, op, platform, arg)
  \/ \E c \in Callers, resp \in Responses : FetchSucceed(c, resp)
  \/ \E c \in Callers, resp \in Responses : FetchViaProxy(c, resp)
  \/ \E c \in Callers, resp \in Responses : FetchRotate(c, resp)
  \/ \E c \in Callers, resp \in Responses : FetchFail(c, resp)
  \/ \E c \in Callers : DelayElapsed(c)
  \/ \E c \in Callers : Collect(c)

Spec == Init /\ [][Next]_vars

\* Overlapping calls. Each caller makes one call through the rotator; the
\* cursor starts anywhere earlier calls can have left it.
InitConcurrent ==
  /\ activeInstanceIndex \in 0..(PIPED_INSTANCES_length - 1)
  /\ isNative \in BOOLEAN
  /\ hasPlugin \in BOOLEAN
  /\ (hasPlugin => isNative)
  /\ call = [c \in Callers |-> IdleCall]
  /\ InitUI

ConcurrentCalls == {<<"getSuggestions", "YouTube", qCa>>}
ConcurrentResponses == {OkResp(P_Suggestions), OkResp(P_EmptyArray), FailResp("status")}

NextConcurrent ==
  \/ \E c \in Callers, inv \in ConcurrentCalls : InvokeConcurrently(c, inv[1], inv[2], inv[3])
  \/ \E c \in Callers, resp \in ConcurrentResponses : FetchSucceed(c, resp)
  \/ \E c \in Callers, resp \in ConcurrentResponses : FetchViaProxy(c, resp)
  \/ \E c \in Callers, resp \in ConcurrentResponses : FetchRotate(c, resp)
  \/ \E c \in Callers, resp \in ConcurrentResponses : FetchFail(c, resp)

SpecConcurrent == InitConcurrent /\ [][NextConcurrent]_vars

\* Overlapping calls of callers that call again and again: as SpecConcurrent,
\* and a caller that has its result may take it and call anew.
NextOverlap ==
  \/ \E c \in Callers, inv \in ConcurrentCalls : InvokeConcurrently(c, inv[1], inv[2], inv[3])
  \/ \E c \in Callers, resp \in {OkResp(P_Suggestions), FailResp("status")} :
       \/ FetchSucceed(c, resp)
       \/ FetchViaProxy(c, resp)
       \/ FetchRotate(c, resp)
       \/ FetchFail(c, resp)
  \/ \E c \in Callers : Collect(c)

SpecOverlap == InitConcurrent /\ [][NextOverlap]_vars

\* Consecutive calls. The callers call one after the other, each once the
\* call before it has delivered its result; the records of the earlier calls
\* stay, so that a call can be compared with the call before it.
InvokeInTurn(c, op, platform, arg) ==
  /\ call[c].pc = "idle"
  /\ \A d \in Callers : (d < c => call[d].pc = "done") /\ (d > c => call[d].pc = "idle")
  /\ Start(c, op, platform, arg)
  /\ UNCHANGED uiVars

RepeatCalls ==
  {<<"getTrending", "YouTube", sUS>>, <<"search", "All", qCa>>, <<"getTrending", "Dailymotion", sUS>>}
RepeatResponses == {OkResp(P_YtTrending), OkResp(P_YtSearch), OkResp(P_Dm), FailResp("status")}

NextRepeat ==
  \/ \E c \in Callers, inv \in RepeatCalls : InvokeInTurn(c, inv[1], inv[2], inv[3])
  \/ \E c \in Callers, resp \in RepeatResponses : FetchSucceed(c, resp)
  \/ \E c \in Callers, resp \in RepeatResponses : FetchViaProxy(c, resp)
  \/ \E c \in Callers, resp \in RepeatResponses : FetchRotate(c, resp)
  \/ \E c \in Callers, resp \in RepeatResponses : FetchFail(c, resp)
  \/ \E c \in Callers : DelayElapsed(c)

SpecRepeat == Init /\ [][NextRepeat]_vars

\* Overlapping calls of all four operations, each caller calling once, under
\* the scheduling the runtime guarantees: a request in flight is answered
\* (it succeeds or fails) and a pending timer fires.
LiveCalls ==
  {<<"getTrending", "YouTube", sUS>>, <<"search", "Dailymotion", qCa>>,
   <<"getSuggestions", "YouTube", qCa>>, <<"getStreamUrl", "Dailymotion", <<"t","1">>>>}
LiveResponses == {OkResp(P_EmptyArray), FailResp("status")}

\* The request the call of caller c has in flight is answered.
Answer(c) ==
  \E resp \in LiveResponses :
    \/ FetchSucceed(c, resp)
    \/ FetchViaProxy(c, resp)
    \/ FetchRotate(c, resp)
    \/ FetchFail(c, resp)

NextLive ==
  \/ \E c \in Callers, inv \in LiveCalls : InvokeConcurrently(c, inv[1], inv[2], inv[3])
  \/ \E c \in Callers : Answer(c)
  \/ \E c \in Callers : DelayElapsed(c)

SpecLive ==
  /\ Init /\ [][NextLive]_vars
  /\ \A c \in Callers : WF_vars(Answer(c)) /\ WF_vars(DelayElapsed(c))

\* ------------------------------------------------------------------------
\* The application shell: fetchData and the watch history
\* ------------------------------------------------------------------------
sLiveCricketMatch ==
  <<"L","i","v","e"," ","C","r","i","c","k","e","t"," ","M","a","t","c","h">>

\* The service call fetchData makes for the view, query and platform of the
\* render it was created in (search takes the query first, then the platform).
FetchRequest(view, searchQuery, currentPlatform, country) ==
  IF view = "SEARCH" /\ searchQuery # <<>> THEN <<"search", currentPlatform, searchQuery>>
  ELSE IF view = "LIVE_SPORTS" THEN <<"search", "All", sLiveCricketMatch>>
  ELSE <<"getTrending", currentPlatform, country>>

\* fetchData up to its await: setLoading(true), setError(false), the call.
fetchData(c, view, searchQuery, currentPlatform) ==
  /\ fetchRun[c].pc = "idle" /\ call[c].pc = "idle"
  /\ LET req == FetchRequest(view, searchQuery, currentPlatform, sUS)
     IN Start(c, req[1], req[2], req[3])
  /\ loading' = TRUE
  /\ error' = FALSE
  /\ fetchRun' = [fetchRun EXCEPT ![c] = [pc |-> "running", captured |-> videos]]
  /\ fetchOrder' = Append(fetchOrder, c)
  /\ UNCHANGED <<videos, history, incognito, lastWatched>>

\* fetchDataSettle without the finally block.
fetchDataSettle_NoFinally(c) ==
  /\ fetchRun[c].pc = "running" /\ call[c].pc = "done"
  /\ videos' = IF call[c].result.kind = "return" THEN call[c].result.val
               ELSE IF Len(fetchRun[c].captured.v) = 0 THEN MOCK_VIDEOS ELSE videos
  /\ fetchRun' = [fetchRun EXCEPT ![c].pc = "settled"]
  /\ UNCHANGED <<activeInstanceIndex, isNative, hasPlugin, call, loading, error, history,
                 incognito, fetchOrder, lastWatched>>

\* fetchData after its await: setVideos(fetchedVideos), or the catch with the
\* videos its closure holds; finally setLoading(false).
fetchDataSettle(c) ==
  /\ fetchRun[c].pc = "running" /\ call[c].pc = "done"
  /\ videos' = IF call[c].result.kind = "return" THEN call[c].result.val
               ELSE IF Len(fetchRun[c].captured.v) = 0 THEN MOCK_VIDEOS ELSE videos
  /\ loading' = FALSE
  /\ fetchRun' = [fetchRun EXCEPT ![c].pc = "settled"]
  /\ UNCHANGED <<activeInstanceIndex, isNative, hasPlugin, call, error, history,
                 incognito, fetchOrder, lastWatched>>

\* The renders fetchData is started from: view, searchQuery, currentPlatform.
FetchInputs ==
  {<<"HOME", qEmpty, "YouTube">>, <<"SEARCH", qCa, "Dailymotion">>,
   <<"SEARCH", qEmpty, "PeerTube">>, <<"LIVE_SPORTS", qEmpty, "TikTok">>}

NextUI ==
  \/ \E c \in Callers, inp \in FetchInputs : fetchData(c, inp[1], inp[2], inp[3])
  \/ \E c \in Callers : Answer(c)
  \/ \E c \in Callers : DelayElapsed(c)
  \/ \E c \in Callers : fetchDataSettle(c)

\* Every request is answered, every timer fires, every resolved promise runs
\* its continuation.
SpecUI ==
  /\ Init /\ [][NextUI]_vars
  /\ \A c \in Callers :
       WF_vars(Answer(c)) /\ WF_vars(DelayElapsed(c)) /\ WF_vars(fetchDataSettle(c))

HistoryLimit == 50
MaxVideoId == 52

\* A watched video; addToHistory reads only its id.
Video(n) == [id |-> n]
MaxId(h) == IF h = <<>> THEN 0 ELSE CHOOSE m \in {h[i].id : i \in 1..Len(h)} :
                                     \A i \in 1..Len(h) : h[i].id <= m
\* The videos watched next: videos are first watched in the order of their
\* ids, and video 1 is the one that is watched again.
WatchCandidates(h) == {Video(n) : n \in {1, MaxId(h) + 1} \cap 1..MaxVideoId}

\* arr.slice(0, n)
Slice0(arr, n) == SubSeq(arr, 1, IF Len(arr) < n THEN Len(arr) ELSE n)

\* addToHistory without the incognito guard.
addToHistory_NoGuard(video) ==
  LET Other(v) == v.id # video.id
  IN /\ history' = Slice0(<<video>> \o SelectSeq(history, Other), HistoryLimit)
     /\ lastWatched' = [id |-> video.id, recorded |-> ~incognito]
     /\ UNCHANGED <<activeInstanceIndex, isNative, hasPlugin, call, videos, loading, error,
                    incognito, fetchRun, fetchOrder>>

\* addToHistory without the filter on the id.
addToHistory_NoFilter(video) ==
  /\ history' = IF incognito THEN history ELSE Slice0(<<video>> \o history, HistoryLimit)
  /\ lastWatched' = [id |-> video.id, recorded |-> ~incognito]
  /\ UNCHANGED <<activeInstanceIndex, isNative, hasPlugin, call, videos, loading, error,
                 incognito, fetchRun, fetchOrder>>

addToHistory(video) ==
  LET Other(v) == v.id # video.id
  IN /\ history' = IF incognito THEN history
                   ELSE Slice0(<<video>> \o SelectSeq(history, Other), HistoryLimit)
     /\ lastWatched' = [id |-> video.id, recorded |-> ~incognito]
     /\ UNCHANGED <<activeInstanceIndex, isNative, hasPlugin, call, videos, loading, error,
                    incognito, fetchRun, fetchOrder>>

clearHistory ==
  /\ history' = <<>>
  /\ lastWatched' = NoVideo
  /\ UNCHANGED <<activeInstanceIndex, isNative, hasPlugin, call, videos, loading, error,
                 incognito, fetchRun, fetchOrder>>

\* toggleIncognito of the settings screen
toggleIncognito ==
  /\ incognito' = ~incognito
  /\ UNCHANGED <<activeInstanceIndex, isNative, hasPlugin, call, videos, loading, error,
                 history, fetchRun, fetchOrder, lastWatched>>

NextHistory ==
  \/ \E video \in WatchCandidates(history) : addToHistory(video)
  \/ clearHistory
  \/ toggleIncognito

SpecHistory == Init /\ [][NextHistory]_vars

\* ------------------------------------------------------------------------
\* Properties
\* ------------------------------------------------------------------------
\* The operation of caller c has its result (delivered, or pending in a timer).
Finished(c) == call[c].pc \in {"delay", "done"}
FacadeCall(c) == Finished(c) /\ call[c].op \in {"getTrending", "search"}
EmptySequence == Arr(<<>>)

\* The awaited fetch of caller c failed: transport error or exhausted rotation.
FetchFailed(c) == call[c].fetched.kind = "throw"

\* The mock set the fallback of getTrending owes to a provider.
TrendingMockOf(platform) ==
  CASE platform = "TikTok" -> MOCK_TIKTOK_VIDEOS
    [] platform = "Rumble" -> MOCK_RUMBLE_VIDEOS
    [] platform = "PeerTube" -> MOCK_PEERTUBE_VIDEOS
    [] OTHER -> MOCK_VIDEOS

\* Case-insensitive substring match, position by position.
MatchesCI(title, query) ==
  \E off \in 0..(Len(title) - Len(query)) :
    \A j \in 1..Len(query) : ToLowerChar(title[off + j]) = ToLowerChar(query[j])

\* The mock set, filtered by title, or whole when nothing matches.
FilteredOrWhole(mock, query) ==
  IF \E i \in 1..Len(mock.v) : MatchesCI(mock.v[i].v.title.v, query)
    THEN LET Hit(r) == MatchesCI(r.v.title.v, query) IN Arr(SelectSeq(mock.v, Hit))
    ELSE mock

\* The payload has the structure the provider's normalizer expects.
IsObject(x) == x.t = "object"
HasStringUrl(x) == IsObject(x) /\ "url" \in DOMAIN x.v /\ x.v.url.t = "string"
IsArrayOf(x, Good(_)) == x.t = "array" /\ \A i \in 1..Len(x.v) : Good(x.v[i])
HasMember(x, f) == IsObject(x) /\ f \in DOMAIN x.v
ExpectedShape(op, platform, d) ==
  CASE platform \in {"YouTube", "All"} /\ op = "getTrending" -> IsArrayOf(d, HasStringUrl)
    [] platform \in {"YouTube", "All"} /\ op = "search" ->
         HasMember(d, "items") /\ IsArrayOf(d.v.items, HasStringUrl)
    [] platform = "Dailymotion" -> HasMember(d, "list") /\ IsArrayOf(d.v.list, IsObject)
    [] platform = "PeerTube" ->
         /\ HasMember(d, "data")
         /\ IsArrayOf(d.v.data, LAMBDA e : HasMember(e, "uuid") \/ HasMember(e, "id"))
    [] OTHER -> TRUE

\* The fetch succeeded but the payload is malformed.
Malformed(c) ==
  /\ call[c].fetched.kind = "return"
  /\ ~ExpectedShape(call[c].op, call[c].platform, call[c].fetched.val)

\* Dailymotion and PeerTube payloads their normalizer answers with the empty
\* sequence: a falsy payload, or one whose list / data member is falsy.
MemberOf(platform) == IF platform = "Dailymotion" THEN "list" ELSE "data"
NoListMember(platform, d) ==
  \/ d.t \in {"undefined", "null"}
  \/ ~HasMember(d, MemberOf(platform))
  \/ d.v[MemberOf(platform)].t \in {"undefined", "null"}

\* The dispatched call of caller c failed: its fetch threw (transport error,
\* exhausted rotation), or the normalizer threw on a malformed payload.
DispatchFailed(c) ==
  \/ FetchFailed(c)
  \/ /\ Malformed(c)
     /\ ~(call[c].platform \in {"Dailymotion", "PeerTube"}
           /\ NoListMember(call[c].platform, call[c].fetched.val))

\* What the fallback policy owes: mocks in a web context, nothing in a native one.
FallbackOwed(op, platform, query) ==
  IF isNative THEN EmptySequence
  ELSE IF op = "getTrending" THEN TrendingMockOf(platform)
  ELSE FilteredOrWhole(TrendingMockOf(platform), query)

\* C1: getTrending and search never throw: whatever the provider token, the
\* context and the outcome of the transport, the call ends with a sequence.
C1_NeverThrows ==
  \A c \in Callers : FacadeCall(c) =>
    call[c].result.kind = "return" /\ call[c].result.val.t = "array"
C1_Witness ==
  \E c \in Callers :
    /\ call[c].pc = "done" /\ call[c].op = "search" /\ call[c].platform = "Dailymotion"
    /\ isNative /\ call[c].served = OkResp(P_DmNullEntry)
    /\ call[c].result.kind = "return"

\* C2: when the dispatched call of getTrending fails in a web context the
\* result is the provider's own mock set (TikTok, Rumble, PeerTube) or the
\* generic mock set, never an error, and empty only if that mock set is.
C2_TrendingWebFallback ==
  \A c \in Callers :
    (Finished(c) /\ call[c].op = "getTrending" /\ ~isNative /\ DispatchFailed(c)) =>
      /\ call[c].result.kind = "return"
      /\ call[c].result.val = TrendingMockOf(call[c].platform)
      /\ (Len(TrendingMockOf(call[c].platform).v) > 0 => Len(call[c].result.val.v) > 0)
C2_Witness ==
  \E c \in Callers :
    /\ call[c].pc = "done" /\ call[c].op = "getTrending" /\ call[c].platform = "PeerTube"
    /\ ~isNative /\ FetchFailed(c)
    /\ call[c].result.val = MOCK_PEERTUBE_VIDEOS

\* C3: when the dispatched call of getTrending or search fails in a native
\* context (transport error, exhausted rotation, malformed payload) the result
\* is the empty sequence, delivered at once; never a mock set.
C3_NativeFailureEmpty ==
  \A c \in Callers :
    (FacadeCall(c) /\ isNative /\ (FetchFailed(c) \/ Malformed(c))) =>
      call[c].pc = "done" /\ call[c].result = Ret(EmptySequence)
C3_Witness ==
  \E c \in Callers :
    /\ call[c].pc = "done" /\ call[c].op = "search" /\ call[c].platform = "All"
    /\ isNative /\ call[c].fetched.err = "All API instances failed."
    /\ call[c].result.val = EmptySequence

\* The mirrors a call started at cursor p asks in its first n attempts.
MirrorsFrom(p, n) == [i \in 1..n |-> (p + i - 1) % PIPED_INSTANCES_length]

\* C4: a rotated fetch whose first k < 3 mirrors p, p+1, ... fail and whose
\* (k+1)-th mirror succeeds returns that mirror's payload, asks no further
\* mirror, and leaves the cursor at (p + k) mod N, the index of the mirror that
\* answered; also while other rotated fetches are in flight.
C4_RotationSuccess ==
  [][\A c \in Callers :
       /\ (/\ call[c].pc = "fetch" /\ call[c].route = "rotated"
           /\ call'[c].pc \in {"delay", "done"} /\ call'[c].fetched.kind = "return") =>
             LET p == call[c].startIndex
                 k == call[c].attempts
             IN /\ k < maxAttempts
                /\ call'[c].served.kind = "ok"
                /\ call'[c].fetched.val = call'[c].served.body
                /\ call'[c].stage = "none"
                /\ activeInstanceIndex' = call[c].tried[Len(call[c].tried)]
                /\ call[c].tried = MirrorsFrom(p, k + 1) =>
                     activeInstanceIndex' = (p + k) % PIPED_INSTANCES_length
       /\ (Finished(c) /\ call'[c].pc # "idle") =>
             call'[c].tried = call[c].tried /\ call'[c].requests = call[c].requests
    ]_vars
C4_Witness ==
  \E c, d \in Callers :
    /\ call[c].pc = "done" /\ call[c].route = "rotated" /\ call[c].fetched.kind = "return"
    /\ call[c].startIndex = 6 /\ call[c].tried = <<6, 0, 1>> /\ activeInstanceIndex = 1
    /\ call[d].pc = "fetch" /\ call[d].attempts = 1

\* C5: a rotated fetch whose 3 mirrors all fail throws the
\* all-instances-failed error after exactly 3 attempts and leaves the cursor
\* where it was when the call began.
C5_RotationExhausted ==
  \A c \in Callers :
    (call[c].route = "rotated" /\ call[c].attempts >= maxAttempts) =>
      /\ Finished(c)
      /\ call[c].attempts = maxAttempts
      /\ call[c].tried = MirrorsFrom(call[c].startIndex, maxAttempts)
      /\ call[c].fetched = Throw("All API instances failed.")
      /\ activeInstanceIndex = call[c].startIndex
C5_Witness ==
  \E c \in Callers :
    /\ call[c].pc = "done" /\ call[c].route = "rotated" /\ call[c].attempts = 3
    /\ call[c].startIndex = 5 /\ call[c].tried = <<5, 6, 0>> /\ activeInstanceIndex = 5

\* C6: search for TikTok or Rumble returns the mock set filtered by
\* case-insensitive title match, and the whole mock set when the query has
\* fewer than 3 characters or matches no title.
C6_MockSearchNeverEmpty ==
  \A c \in Callers :
    (call[c].pc = "done" /\ call[c].op = "search" /\ call[c].platform \in {"TikTok", "Rumble"}) =>
      /\ call[c].result.kind = "return"
      /\ call[c].result.val =
           IF Len(call[c].arg) < 3 THEN TrendingMockOf(call[c].platform)
           ELSE FilteredOrWhole(TrendingMockOf(call[c].platform), call[c].arg)

\* C7: when the dispatched call of search fails in a web context the result
\* is the provider's mock set (PeerTube's own, the generic one for YouTube,
\* All and Dailymotion) filtered by case-insensitive title match, or the whole
\* mock set when no title matches; so it is not empty unless the mock set is.
C7_SearchWebFallback ==
  \A c \in Callers :
    (Finished(c) /\ call[c].op = "search" /\ ~isNative /\ DispatchFailed(c)) =>
      /\ call[c].result.kind = "return"
      /\ call[c].result.val = FilteredOrWhole(TrendingMockOf(call[c].platform), call[c].arg)
      /\ (Len(TrendingMockOf(call[c].platform).v) > 0 => Len(call[c].result.val.v) > 0)
C7_Witness ==
  \E c \in Callers :
    /\ call[c].pc = "done" /\ call[c].op = "search" /\ call[c].platform = "Dailymotion"
    /\ ~isNative /\ FetchFailed(c) /\ call[c].arg = qNoMatch
    /\ call[c].result.val = MOCK_VIDEOS

C9_Suggestions ==
  \A c \in Callers :
    (Finished(c) /\ call[c].op = "getSuggestions") =>
      /\ call[c].pc = "done"
      /\ call[c].result.kind = "return"
      /\ call[c].arg = <<>> =>
           /\ call[c].result.val = EmptySequence
           /\ call[c].requests = <<>> /\ call[c].tried = <<>>
           /\ activeInstanceIndex = call[c].startIndex
      /\ call[c].arg # <<>> =>
           /\ call[c].tried # <<>>
           /\ FetchFailed(c) => call[c].result.val = EmptySequence
           /\ ~FetchFailed(c) => (call[c].served.kind = "ok"
                                   /\ call[c].result.val = call[c].served.body)
C9_Witness ==
  \E c \in Callers :
    /\ call[c].pc = "done" /\ call[c].op = "getSuggestions" /\ call[c].arg = <<>>
    /\ call[c].result.val = EmptySequence /\ activeInstanceIndex = 3

\* The stream list of a payload, when it is a list of variant objects.
StreamsOf(d) == IF HasMember(d, "videoStreams") THEN d.v.videoStreams ELSE Arr(<<>>)
AudioVideo(vs, qualities) ==
  {i \in 1..Len(vs) : /\ HasMember(vs[i], "videoOnly") /\ vs[i].v.videoOnly = B(FALSE)
                      /\ \/ qualities = {}
                         \/ HasMember(vs[i], "quality") /\ vs[i].v.quality.v \in qualities}
UrlAt(vs, i) == IF HasMember(vs[i], "url") THEN vs[i].v.url ELSE Undef

\* C10: getStreamUrl for YouTube never throws; it returns the hls stream if
\* offered, else the first 1080p audio+video variant, else the first 720p
\* one, else the first audio+video variant, else null; null when the rotated
\* fetch fails; the 1080p URL when 1080p and 720p variants are both offered.
C10_StreamPreference ==
  \A c \in Callers :
    (Finished(c) /\ call[c].op = "getStreamUrl" /\ call[c].platform = "YouTube") =>
      LET d == call[c].fetched.val
          vs == StreamsOf(d).v
          a1080 == AudioVideo(vs, {s1080p})
          a720 == AudioVideo(vs, {s720p})
          any == AudioVideo(vs, {})
          res == call[c].result.val
      IN /\ call[c].pc = "done"
         /\ call[c].result.kind = "return"
         /\ FetchFailed(c) => res = Null
         /\ (~FetchFailed(c) /\ IsObject(d) /\ IsArrayOf(StreamsOf(d), IsObject)) =>
              IF HasMember(d, "hls") /\ d.v.hls.t = "string" THEN res = d.v.hls
              ELSE IF a1080 # {} THEN res = UrlAt(vs, Min(a1080))
              ELSE IF a720 # {} THEN res = UrlAt(vs, Min(a720))
              ELSE IF any # {} THEN res = UrlAt(vs, Min(any))
              ELSE res = Null
         /\ d = P_StreamsBoth => res = S(sUrl1080)
C10_Witness ==
  \E c \in Callers :
    /\ call[c].pc = "done" /\ call[c].op = "getStreamUrl" /\ call[c].platform = "YouTube"
    /\ call[c].fetched = Ret(P_StreamsBoth)
    /\ call[c].result.val = S(sUrl1080)

\* The records of the static mock sets.
MockRecords ==
  UNION {{m.v[i] : i \in 1..Len(m.v)} :
           m \in {MOCK_TIKTOK_VIDEOS, MOCK_RUMBLE_VIDEOS, MOCK_PEERTUBE_VIDEOS, MOCK_VIDEOS}}

\* C11: getStreamUrl for a provider other than YouTube issues no request, asks
\* no mirror, leaves the cursor where it was and returns a URL, never null:
\* for Dailymotion the embed URL built from the id; otherwise the stream URL of
\* the mock record with that id when there is one and it has one, else the
\* fixed sample URL.
C11_StreamUrlWithoutNetwork ==
  \A c \in Callers :
    (Finished(c) /\ call[c].op = "getStreamUrl" /\ call[c].platform # "YouTube") =>
      LET id == call[c].arg
          withUrl == {r \in MockRecords : r.v.id = S(id) /\ r.v.streamUrl.t = "string"}
      IN /\ call[c].pc = "done"
         /\ call[c].requests = <<>> /\ call[c].tried = <<>>
         /\ activeInstanceIndex = call[c].startIndex
         /\ call[c].result.kind = "return"
         /\ call[c].result.val.t = "string"
         /\ call[c].result.val =
              IF call[c].platform = "Dailymotion" THEN S(sEmbedPrefix \o id \o sAutoplay)
              ELSE IF withUrl # {} THEN (CHOOSE r \in withUrl : TRUE).v.streamUrl
              ELSE S(sBigBuckBunny)
C11_Witness ==
  \E c \in Callers :
    /\ call[c].pc = "done" /\ call[c].op = "getStreamUrl" /\ call[c].platform = "Rumble"
    /\ call[c].arg = <<"r","2">> /\ call[c].result.val = S(sBigBuckBunny)
    /\ activeInstanceIndex = 2

\* The fields every VideoData record must carry.
RequiredFields ==
  {"id", "title", "uploader", "views", "date", "duration", "thumbnail", "platform", "avatar"}
CompleteRecord(r) ==
  IsObject(r) /\ \A f \in RequiredFields : f \in DOMAIN r.v /\ r.v[f].t \notin {"undefined", "null"}

\* The raw entries the normalizer of a live provider maps: the payload itself,
\* its items of type stream, its list, its data.
StreamItem(e) == HasMember(e, "type") /\ e.v.type = S(sStream)
RawEntries(op, platform, d) ==
  CASE platform \in {"YouTube", "All"} /\ op = "getTrending" -> d
    [] platform \in {"YouTube", "All"} ->
         IF HasMember(d, "items") /\ d.v.items.t = "array"
           THEN Arr(SelectSeq(d.v.items.v, StreamItem)) ELSE Undef
    [] platform = "Dailymotion" -> IF HasMember(d, "list") THEN d.v.list ELSE Undef
    [] OTHER -> IF HasMember(d, "data") THEN d.v.data ELSE Undef

\* C12: when a live provider (YouTube, Dailymotion, PeerTube) answers with a
\* list of entries, the result has one record per entry and every record
\* carries all required fields with a value that is neither undefined nor
\* null, whichever raw fields the entries lack.
C12_NormalizationComplete ==
  \A c \in Callers :
    (/\ FacadeCall(c) /\ call[c].platform \in {"YouTube", "Dailymotion", "PeerTube"}
     /\ call[c].fetched.kind = "return"
     /\ IsArrayOf(RawEntries(call[c].op, call[c].platform, call[c].fetched.val), IsObject)) =>
      LET raw == RawEntries(call[c].op, call[c].platform, call[c].fetched.val).v
          out == call[c].result.val
      IN /\ call[c].result.kind = "return"
         /\ Len(out.v) = Len(raw)
         /\ \A i \in 1..Len(out.v) : CompleteRecord(out.v[i])

\* C13: getTrending and search treat the token All exactly as YouTube: the
\* call goes through the rotator, its result is the one the same fetch outcome
\* gives a YouTube call in the same context (payload normalized, mock fallback
\* in a web context, empty sequence in a native one), and the cursor ends on
\* the mirror that answered, or where it was when the rotation is exhausted.
C13_AllIsYouTube ==
  \A c \in Callers :
    (FacadeCall(c) /\ call[c].platform \in {"All", "YouTube"}) =>
      /\ call[c].route = "rotated"
      /\ call[c].tried # <<>> /\ call[c].tried[1] = call[c].startIndex
      /\ call[c].result =
           Completion(call[c].op, "YouTube", call[c].arg, isNative, call[c].fetched)
      /\ activeInstanceIndex =
           IF call[c].fetched.kind = "return" THEN call[c].tried[Len(call[c].tried)]
           ELSE call[c].startIndex
C13_Witness ==
  \E c \in Callers :
    /\ call[c].pc = "done" /\ call[c].op = "search" /\ call[c].platform = "All"
    /\ call[c].fetched = Ret(P_YtSearch) /\ call[c].tried = <<0, 1>>
    /\ Len(call[c].result.val.v) = 2 /\ call[c].result.val.v[1].v.platform = S(sYouTube)
    /\ activeInstanceIndex = 1

\* C14: getTrending and search return the empty sequence for Bandcamp, for
\* every country and query, in every context.
C14_BandcampEmpty ==
  \A c \in Callers :
    (FacadeCall(c) /\ call[c].platform = "Bandcamp") =>
      call[c].result.kind = "return" /\ call[c].result.val = EmptySequence

\* Callers c and d made the same getTrending or search call.
SameCall(c, d) ==
  /\ call[c].op \in {"getTrending", "search"}
  /\ call[d].op = call[c].op /\ call[d].platform = call[c].platform /\ call[d].arg = call[c].arg
\* The call of caller c has its result and its fetch succeeded.
Succeeded(c) == Finished(c) /\ call[c].fetched.kind = "return"
\* The servers answer the call of d as they answered the earlier call of c: a
\* mirror that failed c fails d, the mirror that served c serves d the same;
\* for a provider without mirrors, d is served what c was served.
SameAnswers(c, d) ==
  IF call[c].route = "rotated"
    THEN \A i \in 1..Len(call[d].tried) :
           LET m == call[d].tried[i]
               n == Len(call[c].tried)
           IN /\ m = call[c].tried[n] => (i = Len(call[d].tried) /\ call[d].served = call[c].served)
              /\ (\E j \in 1..(n - 1) : call[c].tried[j] = m) => i < Len(call[d].tried)
    ELSE call[d].served = call[c].served

\* C15: when a getTrending or search call succeeds and the next call, with
\* the same arguments and the servers answering as before, succeeds too, the
\* second call returns the same result as the first and leaves the cursor
\* where it found it.
C15_Idempotent ==
  \A c \in Callers, d \in Callers :
    (d = c + 1 /\ SameCall(c, d) /\ Succeeded(c) /\ Succeeded(d) /\ SameAnswers(c, d)) =>
      /\ call[d].result = call[c].result
      /\ (\A e \in Callers : e > d => call[e].pc = "idle") =>
           activeInstanceIndex = call[d].startIndex
C15_Witness ==
  /\ call[1].pc = "done" /\ call[1].op = "getTrending" /\ call[1].platform = "YouTube"
  /\ call[1].tried = <<0, 1>> /\ call[1].fetched = Ret(P_YtTrending)
  /\ call[2].pc = "done" /\ SameCall(1, 2) /\ call[2].tried = <<1>>
  /\ call[2].result = call[1].result /\ Len(call[2].result.val.v) = 2
  /\ activeInstanceIndex = 1

\* C16: whatever overlapping calls do to the cursor, a rotated call asks the
\* mirrors p, p+1, p+2 (mod N), counted from the cursor p it found when it
\* began.
C16_MirrorsFromStart ==
  \A c \in Callers :
    call[c].route = "rotated" =>
      call[c].tried = MirrorsFrom(call[c].startIndex, Len(call[c].tried))

\* C17: the mirrors one rotated call asks are pairwise distinct, also when
\* overlapping calls move the cursor between its attempts.
C17_DistinctMirrors ==
  \A c \in Callers :
    \A i \in 1..Len(call[c].tried), j \in 1..Len(call[c].tried) :
      i # j => call[c].tried[i] # call[c].tried[j]

\* C18: the cursor is written only by a rotated call that succeeds after it
\* rotated, and then to the mirror that answered; a rotated call that succeeds
\* at its first attempt, a rotated call whose attempts all fail and a call
\* that does not go through the rotator leave it unchanged.
C18_CursorWrittenOnlyAfterRotation ==
  [][activeInstanceIndex' # activeInstanceIndex =>
       \E c \in Callers :
         /\ call[c].pc = "fetch" /\ call[c].route = "rotated"
         /\ call'[c].pc \in {"delay", "done"} /\ call'[c].fetched.kind = "return"
         /\ Len(call[c].tried) > 1
         /\ activeInstanceIndex' = call[c].tried[Len(call[c].tried)]
    ]_vars

\* C19: an operation makes one sequential chain of requests: a rotated call
\* invokes the transport at most 3 times, a direct call once, a call outside
\* the network never; at most one request is in flight, and only while the
\* call awaits; a request is issued only after every earlier request of the
\* call failed, so none follows a success.
C19_SequentialAttempts ==
  \A c \in Callers :
    LET r == call[c]
        inFlight == Len(r.requests) - Len(r.answers)
        invocations == IF r.route = "rotated" THEN Len(r.tried)
                       ELSE IF r.route = "direct" THEN 1 ELSE 0
    IN /\ Len(r.tried) <= maxAttempts
       /\ r.route # "rotated" => r.tried = <<>>
       /\ r.route = "rotated" =>
            Len(r.tried) = r.attempts + (IF r.pc = "fetch" \/ r.fetched.kind = "return" THEN 1 ELSE 0)
       /\ Len(r.requests) >= invocations /\ Len(r.requests) <= 2 * invocations
       /\ inFlight \in {0, 1}
       /\ inFlight = 1 <=> r.pc = "fetch"
       /\ \A i \in 1..Len(r.answers) : r.answers[i] => (i = Len(r.requests) /\ r.pc # "fetch")
C19_Witness ==
  \E c \in Callers :
    /\ call[c].pc = "done" /\ call[c].route = "rotated" /\ ~isNative
    /\ Len(call[c].tried) = 3 /\ Len(call[c].requests) = 6
    /\ call[c].answers = <<FALSE, FALSE, FALSE, FALSE, FALSE, TRUE>>
    /\ call[c].fetched.kind = "return"

\* C20: where nativeFetch uses the browser (no CapacitorHttp), each of its
\* invocations asks the server directly first and the CORS proxy only after,
\* and whenever, the direct request failed, once; it returns the payload of
\* the first request that succeeds and fails when both fail; so an invocation
\* issues at most 2 requests and never the proxy request first.
C20_WebStrategy ==
  \A c \in Callers :
    ~(isNative /\ hasPlugin) =>
      LET r == call[c]
          n == Len(r.requests)
          invocations == IF r.route = "rotated" THEN Len(r.tried) ELSE 1
      IN /\ \A i \in 1..n : r.requests[i] \in {"direct", "proxy"}
         /\ n > 0 => r.requests[1] = "direct"
         /\ \A i \in 1..n :
              r.requests[i] = "proxy" =>
                (i > 1 /\ r.requests[i - 1] = "direct" /\ ~r.answers[i - 1])
         /\ \A i \in 1..Len(r.answers) :
              (r.requests[i] = "direct" /\ ~r.answers[i]) =>
                (n > i /\ r.requests[i + 1] = "proxy")
         /\ \A i \in 1..Len(r.answers) :
              r.answers[i] =>
                /\ i = n /\ Finished(c)
                /\ r.served.kind = "ok" /\ r.fetched = Ret(r.served.body)
         /\ (r.route = "direct" /\ r.answers = <<FALSE, FALSE>>) =>
              (Finished(c) /\ r.fetched = Throw("Web Fetch Failed"))
         /\ (Finished(c) /\ n > 0 /\ ~r.answers[n]) =>
              (r.fetched.kind = "throw" /\ r.requests[n] = "proxy")
         /\ n <= 2 * invocations
C20_Witness ==
  \E c \in Callers :
    /\ ~isNative /\ call[c].pc = "done" /\ call[c].route = "direct"
    /\ call[c].requests = <<"direct", "proxy">> /\ call[c].answers = <<FALSE, TRUE>>
    /\ call[c].fetched = Ret(P_Dm)

C22_Terminates ==
  <>[](\A c \in Callers : call[c].pc \in {"idle", "done"})
C22_Witness ==
  \E c \in Callers, d \in Callers :
    /\ call[c].pc = "done" /\ call[c].op = "getTrending" /\ call[c].platform = "YouTube"
    /\ call[c].attempts = maxAttempts /\ call[c].result = RetDelayed(MOCK_VIDEOS)
    /\ call[d].pc = "fetch" /\ call[d].attempts = 2

\* What a mock-only provider answers, whatever the context and the network:
\* getTrending its mock set (none for Bandcamp); search the records of its
\* mock set (the generic one for Bandcamp) whose title matches, in order, and
\* for TikTok and Rumble every record when the query has under 3 characters.
MockOnlyAnswer(op, platform, query) ==
  IF op = "getTrending"
    THEN IF platform = "Bandcamp" THEN EmptySequence ELSE TrendingMockOf(platform)
    ELSE LET Kept(r) == \/ MatchesCI(r.v.title.v, query)
                        \/ (platform # "Bandcamp" /\ Len(query) < 3)
         IN Arr(SelectSeq(TrendingMockOf(platform).v, Kept))

\* C23: getTrending and search for TikTok, Rumble and Bandcamp end at once
\* without a request, without asking a mirror and without touching the cursor,
\* and their result is a function of the arguments alone: the same in every
\* context and whatever the network does; getTrending("TikTok", c) is exactly
\* the TikTok mock set.
C23_MockOnlyNoTransport ==
  \A c \in Callers :
    (FacadeCall(c) /\ call[c].platform \in {"TikTok", "Rumble", "Bandcamp"}) =>
      /\ call[c].pc = "done"
      /\ call[c].route = "none" /\ call[c].requests = <<>> /\ call[c].tried = <<>>
      /\ call[c].fetched = NoOutcome
      /\ activeInstanceIndex = call[c].startIndex
      /\ call[c].result = Ret(MockOnlyAnswer(call[c].op, call[c].platform, call[c].arg))
      /\ (call[c].op = "getTrending" /\ call[c].platform = "TikTok") =>
           call[c].result.val = MOCK_TIKTOK_VIDEOS
C23_Witness ==
  \E c \in Callers :
    /\ call[c].pc = "done" /\ call[c].op = "getTrending" /\ call[c].platform = "TikTok"
    /\ isNative /\ hasPlugin /\ activeInstanceIndex = 2
    /\ call[c].result.val = MOCK_TIKTOK_VIDEOS /\ call[c].requests = <<>>

\* C24: in a web context every getTrending or search call whose dispatched
\* call failed delivers its mock fallback through the timer: the outcome is
\* a delayed one, handed over only by the step that lets the delay elapse.
C24_FallbackAfterDelay ==
  \A c \in Callers :
    (FacadeCall(c) /\ ~isNative /\ DispatchFailed(c)) => call[c].result.delay

\* The record a provider's normalizer makes of one raw entry, and the name
\* the normalizer tags its records with.
NormalizedEntry(platform, e) ==
  CASE platform = "Dailymotion" -> mapDmEntry(e)
    [] platform = "PeerTube" -> mapPeerTubeEntry(e)
    [] OTHER -> mapYtEntry(e)
NormalizerName(platform) ==
  CASE platform = "Dailymotion" -> S(sDailymotion)
    [] platform = "PeerTube" -> S(sPeerTube)
    [] OTHER -> S(sYouTube)
Normalized(c) ==
  /\ FacadeCall(c) /\ call[c].platform \in {"YouTube", "All", "Dailymotion", "PeerTube"}
  /\ call[c].fetched.kind = "return" /\ ~DispatchFailed(c)
  /\ RawEntries(call[c].op, call[c].platform, call[c].fetched.val).t = "array"

\* C25: a normalization that succeeds preserves order and tags its own
\* provider: the result has one record per raw entry (for a YouTube search,
\* per item of type stream), the i-th record is made of the i-th entry, and
\* every record's platform is the normalizer's own name.
C25_OrderAndPlatform ==
  \A c \in Callers :
    Normalized(c) =>
      LET raw == RawEntries(call[c].op, call[c].platform, call[c].fetched.val).v
          out == call[c].result.val
      IN /\ call[c].result.kind = "return" /\ out.t = "array"
         /\ Len(out.v) = Len(raw)
         /\ \A i \in 1..Len(raw) :
              /\ out.v[i] = NormalizedEntry(call[c].platform, raw[i])
              /\ out.v[i].v.platform = NormalizerName(call[c].platform)
C25_Witness ==
  \E c \in Callers :
    /\ Normalized(c) /\ call[c].op = "search" /\ call[c].platform = "YouTube"
    /\ call[c].fetched.val = P_YtSearch
    /\ Len(call[c].result.val.v) = 2
    /\ call[c].result.val.v[1].v.id = S(<<"a","1">>)
    /\ call[c].result.val.v[2].v.id = S(<<"b","2","&">>)

\* C26: in every reachable state, under any interleaving of calls, the
\* cursor is an index of the pool (0 <= cursor < pool size), and so is every
\* mirror index a call computes and asks.
MirrorIndices == 0..(PIPED_INSTANCES_length - 1)
C26_CursorInRange ==
  /\ activeInstanceIndex \in MirrorIndices
  /\ \A c \in Callers :
       /\ \A i \in 1..Len(call[c].tried) : call[c].tried[i] \in MirrorIndices
       /\ call[c].route = "rotated" /\ call[c].pc # "idle" => call[c].currentIndex \in MirrorIndices
C26_Witness ==
  \E c \in Callers :
    /\ call[c].pc \in {"delay", "done"}
    /\ call[c].tried = <<PIPED_INSTANCES_length - 1, 0>>
    /\ activeInstanceIndex = 0

\* C27: latest request wins: once every fetchData run that began has settled,
\* the displayed list is the result of the run that began last.
C27_LatestFetchWins ==
  (fetchOrder # <<>> /\ \A c \in Callers : fetchRun[c].pc # "running") =>
    videos = call[fetchOrder[Len(fetchOrder)]].result.val

\* C28: every fetchData run that begins settles, and the step that settles it
\* sets loading to false; the error flag is false in every reachable state.
C28_LoadingEndsNoError ==
  /\ [](error = FALSE)
  /\ [][\A c \in Callers :
          (fetchRun[c].pc = "running" /\ fetchRun'[c].pc = "settled") => loading' = FALSE]_vars
  /\ <>[](\A c \in Callers : fetchRun[c].pc \in {"idle", "settled"})
C28_Witness ==
  \E c, d \in Callers :
    /\ fetchRun[c].pc = "settled" /\ fetchRun[d].pc = "settled" /\ c # d
    /\ call[c].fetched.kind = "throw" /\ call[d].fetched.kind = "return"
    /\ loading = FALSE /\ error = FALSE

\* C29: the history holds at most 50 records with pairwise distinct ids, a
\* video added outside incognito mode is its first record, and addToHistory
\* in incognito mode leaves the history unchanged.
C29_HistoryInvariant ==
  /\ [](/\ Len(history) <= HistoryLimit
        /\ \A i, j \in 1..Len(history) : i # j => history[i].id # history[j].id
        /\ lastWatched.recorded => (history # <<>> /\ history[1].id = lastWatched.id))
  /\ [][(lastWatched' # NoVideo /\ ~lastWatched'.recorded) => history' = history]_vars
C29_Witness ==
  /\ Len(history) = HistoryLimit
  /\ history[1].id = 1 /\ lastWatched = [id |-> 1, recorded |-> TRUE]
  /\ history[2].id = HistoryLimit + 1
  /\ history[HistoryLimit].id = 3

====
